---- MODULE Spec2Model ----
(***************************************************************************)
(* Player Injuries Impact Dashboard (src/app.py).                          *)
(*                                                                         *)
(* The script is run top to bottom once per invocation (one invocation per *)
(* session start, rerun or widget change).  The model follows one session  *)
(* of one process: the source file on disk, the process-wide cache of      *)
(* load_data, the session's widget state, and the script's own variables   *)
(* as the invocation moves through its sections.                           *)
(*                                                                         *)
(* Values.  A text cell of the CSV is a string; a cell pandas holds as     *)
(* missing in a string column is NaN.  A date cell is the sequence of its  *)
(* tokens <<month, day, year>> ("Nov 12, 2022" is <<"Nov", 12, 2022>>), a  *)
(* parsed Timestamp is <<ordinal>> (days since 0001-01-01, proleptic       *)
(* Gregorian) and NaT is <<>>.  A nullable number is <<n>> or <<>>.  A     *)
(* match-result cell is the sequence of its characters, the empty cell     *)
(* being <<>>.                                                             *)
(***************************************************************************)
EXTENDS Integers, Sequences, FiniteSets, TLC

\* Largest number of data rows of a source file.
MaxRows == 2

\* ------------------------------------------------------------------------
\* Missing values
\* ------------------------------------------------------------------------

\* A missing value of a string column.
NaN == "NaN"

\* A missing value of a date, number or match-result cell (NaT / NaN).
NaT == <<>>

\* The cell texts pd.read_csv reads as missing (its default na_values, the
\* ones the inputs below use).
NaValues == {"", "NA", "N/A", "NaN"}

\* ------------------------------------------------------------------------
\* Sequences
\* ------------------------------------------------------------------------

Range(s) == {s[i] : i \in DOMAIN s}

SeqsUpTo(S, n) == UNION {[1..k -> S] : k \in 0..n}

RECURSIVE SumSeq(_)
SumSeq(s) == IF s = <<>> THEN 0 ELSE Head(s) + SumSeq(Tail(s))

RECURSIVE Flatten(_)
Flatten(ss) == IF ss = <<>> THEN <<>> ELSE Head(ss) \o Flatten(Tail(ss))

Min(a, b) == IF a <= b THEN a ELSE b

\* ------------------------------------------------------------------------
\* Dates: pd.to_datetime(..., errors='coerce') on "Mon D, YYYY" texts
\* ------------------------------------------------------------------------

MonthNames == <<"Jan", "Feb", "Mar", "Apr", "May", "Jun",
                "Jul", "Aug", "Sep", "Oct", "Nov", "Dec">>

MonthIndex(m) ==
    IF \E i \in DOMAIN MonthNames : MonthNames[i] = m
    THEN CHOOSE i \in DOMAIN MonthNames : MonthNames[i] = m
    ELSE 0

IsLeap(y) == (y % 4 = 0) /\ ((y % 100 # 0) \/ (y % 400 = 0))

DaysInMonth(y, m) ==
    IF m = 2 THEN (IF IsLeap(y) THEN 29 ELSE 28)
    ELSE IF m \in {4, 6, 9, 11} THEN 30 ELSE 31

RECURSIVE DaysBeforeMonth(_, _)
DaysBeforeMonth(y, m) ==
    IF m = 1 THEN 0 ELSE DaysBeforeMonth(y, m - 1) + DaysInMonth(y, m - 1)

DaysBeforeYear(y) ==
    365 * (y - 1) + ((y - 1) \div 4) - ((y - 1) \div 100) + ((y - 1) \div 400)

\* The day number of a calendar date.
Ordinal(y, m, d) == DaysBeforeYear(y) + DaysBeforeMonth(y, m) + d

\* Whether a date text names a day of the calendar.
IsDateText(c) ==
    /\ Len(c) = 3
    /\ MonthIndex(c[1]) # 0
    /\ c[2] >= 1
    /\ c[2] <= DaysInMonth(c[3], MonthIndex(c[1]))

\* One cell through pd.to_datetime(errors='coerce'): a text that is no date,
\* and a missing cell, become NaT instead of raising.
to_datetime(c) ==
    IF IsDateText(c) THEN <<Ordinal(c[3], MonthIndex(c[1]), c[2])>> ELSE NaT

\* The subtraction with a missing date read as day 0.
timedelta_days_fill0(ret, inj) ==
    <<(IF ret = NaT THEN 0 ELSE ret[1]) - (IF inj = NaT THEN 0 ELSE inj[1])>>

\* (ret - inj).dt.days: NaT when either operand is NaT.
timedelta_days(ret, inj) ==
    IF ret = NaT \/ inj = NaT THEN NaT ELSE <<ret[1] - inj[1]>>

\* ------------------------------------------------------------------------
\* Column names
\* ------------------------------------------------------------------------

\* A column name as the sequence of its pieces: "Match1_missed_match_Result"
\* is <<"Match1_", "missed_match_Result">>.
ColBefore1 == <<"Match1_", "before_injury_Result">>
ColMissed1 == <<"Match1_", "missed_match_Result">>
ColMissed2 == <<"Match2_", "missed_match_Result">>

\* 'missed_match_Result' in col
IsMissedMatchCol(col) == \E i \in DOMAIN col : col[i] = "missed_match_Result"

\* [col for col in df.columns if 'missed_match_Result' in col]
MissedMatchCols(columns) == SelectSeq(columns, IsMissedMatchCol)

ColIndex(columns, col) == CHOOSE j \in DOMAIN columns : columns[j] = col

\* ------------------------------------------------------------------------
\* Loading: pd.read_csv
\* ------------------------------------------------------------------------

ReadCell(text) == IF text \in NaValues THEN NaN ELSE text

ReadRow(r) ==
    [Team_Name      |-> ReadCell(r.Team_Name),
     Position       |-> ReadCell(r.Position),
     Injury         |-> ReadCell(r.Injury),
     Date_of_Injury |-> r.Date_of_Injury,
     Date_of_return |-> r.Date_of_return,
     Results        |-> r.Results]

read_csv(content) ==
    [columns |-> content.columns,
     rows    |-> [i \in DOMAIN content.rows |-> ReadRow(content.rows[i])]]

\* ------------------------------------------------------------------------
\* Cleaning and preparation
\* ------------------------------------------------------------------------

\* Lines 38-42 on one row: both date columns parsed, Recovery Duration added.
DeriveRow(r) ==
    LET inj == to_datetime(r.Date_of_Injury)
        ret == to_datetime(r.Date_of_return)
    IN  [Team_Name         |-> r.Team_Name,
         Position          |-> r.Position,
         Injury            |-> r.Injury,
         Date_of_Injury    |-> inj,
         Date_of_return    |-> ret,
         Recovery_Duration |-> timedelta_days(ret, inj),
         Results           |-> r.Results]

Derive(t) ==
    [columns |-> t.columns,
     rows    |-> [i \in DOMAIN t.rows |-> DeriveRow(t.rows[i])]]

\* dropna with 'Position' left out of the subset.
IsComplete_no_position(r) ==
    /\ r.Recovery_Duration # NaT
    /\ r.Team_Name # NaN

\* dropna followed by a discard of negative durations.
IsComplete_nonnegative(r) ==
    /\ r.Recovery_Duration # NaT
    /\ r.Recovery_Duration[1] >= 0
    /\ r.Team_Name # NaN
    /\ r.Position # NaN

\* A row dropna(subset=['Recovery Duration', 'Team Name', 'Position']) keeps.
IsComplete(r) ==
    /\ r.Recovery_Duration # NaT
    /\ r.Team_Name # NaN
    /\ r.Position # NaN

dropna(t) == [columns |-> t.columns, rows |-> SelectSeq(t.rows, IsComplete)]

\* ------------------------------------------------------------------------
\* Sidebar and selection filter
\* ------------------------------------------------------------------------

\* The names the inputs use, in Python's string order.
Lexicographic == <<"Arsenal", "Chelsea", "FW", "GK", "Hamstring", "Knee">>

\* sorted(S) for a set of names.
sorted(S) == SelectSeq(Lexicographic, LAMBDA n : n \in S)

\* default=teams[:3]
DefaultTeamCount == 3

TeamOptions(clean) == sorted({clean.rows[i].Team_Name : i \in DOMAIN clean.rows})

PositionOptions(clean) == sorted({clean.rows[i].Position : i \in DOMAIN clean.rows})

DefaultTeams(opts) == {opts[i] : i \in 1..Min(DefaultTeamCount, Len(opts))}

DefaultPositions(opts) == Range(opts)

\* Both isin() filters applied whatever the selections hold.
ApplyFilters_always(clean, sel_teams, sel_positions) ==
    [columns |-> clean.columns,
     rows    |-> SelectSeq(clean.rows,
                           LAMBDA r : /\ r.Team_Name \in sel_teams
                                      /\ r.Position \in sel_positions)]

\* Lines 63-69.  A selection is the set of the chosen options; an empty
\* list is falsy, so the filter of that dimension is skipped.
ApplyFilters(clean, sel_teams, sel_positions) ==
    LET by_team ==
            IF sel_teams # {}
            THEN SelectSeq(clean.rows, LAMBDA r : r.Team_Name \in sel_teams)
            ELSE clean.rows
        by_position ==
            IF sel_positions # {}
            THEN SelectSeq(by_team, LAMBDA r : r.Position \in sel_positions)
            ELSE by_team
    IN  [columns |-> clean.columns, rows |-> by_position]

\* ------------------------------------------------------------------------
\* Top metrics
\* ------------------------------------------------------------------------

RECURSIVE GCD(_, _)
GCD(a, b) == IF b = 0 THEN a ELSE GCD(b, a % b)

Abs(x) == IF x < 0 THEN -x ELSE x

\* The float sum/n as the fraction <<num, den>> in lowest terms, den > 0.
Fraction(sum, n) ==
    LET g == GCD(Abs(sum), n) IN <<sum \div g, n \div g>>

\* Series.mean(): missing values are skipped; NaN when nothing is left.
mean(xs) ==
    LET present == SelectSeq(xs, LAMBDA x : x # NaT)
        values  == [i \in DOMAIN present |-> present[i][1]]
    IN  IF present = <<>> THEN NaT ELSE Fraction(SumSeq(values), Len(present))

\* Series.mode(): the most frequent non-missing values, sorted.
mode(xs) ==
    LET vals   == Range(xs) \ {NaN}
        cnt(v) == Cardinality({i \in DOMAIN xs : xs[i] = v})
    IN  sorted({v \in vals : \A w \in vals : cnt(v) >= cnt(w)})

RecoveryColumn(t) == [i \in DOMAIN t.rows |-> t.rows[i].Recovery_Duration]

InjuryColumn(t) == [i \in DOMAIN t.rows |-> t.rows[i].Injury]

\* df_filtered['Recovery Duration'].mean()
AvgRecovery(t) == mean(RecoveryColumn(t))

\* df_filtered['Injury'].mode()[0] raises when mode() is empty.
ModeRaises(t) == t.rows # <<>> /\ mode(InjuryColumn(t)) = <<>>

\* df_filtered['Injury'].mode()[0] if not df_filtered.empty else "N/A"
MostCommonInjury(t) ==
    IF t.rows # <<>> THEN mode(InjuryColumn(t))[1] ELSE "N/A"

\* round(10 * num / den) to the nearest integer, ties to even: the digit
\* the format prints for a float that holds num/den exactly, which every
\* tie of fewer than 20 whole-day values does (a tie is an odd multiple of
\* 1/20 and then a multiple of 1/4).
RoundTenths(num, den) ==
    LET q == (10 * num) \div den
        r == (10 * num) % den
    IN  IF 2 * r < den THEN q
        ELSE IF 2 * r > den THEN q + 1
        ELSE IF q % 2 = 0 THEN q ELSE q + 1

\* f"{avg_recovery:.1f} Days": the text is "nan Days" for NaN, else the
\* value to one decimal (held in tenths).
FormatAvg(avg) ==
    IF avg = NaT
    THEN [nan |-> TRUE, tenths |-> 0]
    ELSE [nan |-> FALSE, tenths |-> RoundTenths(avg[1], avg[2])]

\* ------------------------------------------------------------------------
\* Match-outcome tally
\* ------------------------------------------------------------------------

UpperCase == <<"A", "B", "C", "D", "E", "F", "G", "H", "I", "J", "K", "L", "M",
               "N", "O", "P", "Q", "R", "S", "T", "U", "V", "W", "X", "Y", "Z">>

LowerCase == <<"a", "b", "c", "d", "e", "f", "g", "h", "i", "j", "k", "l", "m",
               "n", "o", "p", "q", "r", "s", "t", "u", "v", "w", "x", "y", "z">>

LowerChar(c) ==
    IF \E i \in DOMAIN UpperCase : UpperCase[i] = c
    THEN LowerCase[CHOOSE i \in DOMAIN UpperCase : UpperCase[i] = c]
    ELSE c

\* The value left as it is.
str_lower_skipped(token) == token

\* .str.lower() on one value
str_lower(token) == [i \in DOMAIN token |-> LowerChar(token[i])]

\* df_filtered[col].dropna().tolist()
ColumnValues(t, col) ==
    LET j     == ColIndex(t.columns, col)
        cells == [i \in DOMAIN t.rows |-> t.rows[i].Results[j]]
    IN  SelectSeq(cells, LAMBDA c : c # NaT)

\* Lines 132-134: the values of the columns, one column after the other.
ResultsList(t, cols) ==
    Flatten([k \in DOMAIN cols |-> ColumnValues(t, cols[k])])

\* Series.value_counts(): each distinct value with its number of occurrences.
value_counts(xs) ==
    [v \in Range(xs) |-> Cardinality({i \in DOMAIN xs : xs[i] = v})]

\* Lines 137-141.
ResCounts(list) == value_counts([i \in DOMAIN list |-> str_lower(list[i])])

\* The chart drawn whatever the list holds.
Chart5Element_always(list) == "chart5"

\* Lines 136-149: the element chart 5 puts on the page.
Chart5Element(list) == IF list # <<>> THEN "chart5" ELSE "info"

\* ------------------------------------------------------------------------
\* State
\* ------------------------------------------------------------------------

VARIABLES
    file,                \* player_injuries_impact.csv: [status, content]
    cache,               \* the entry of @st.cache_data for load_data: <<>> or <<table>>
    widget,              \* the session's multiselect values: <<>> or <<[teams, positions]>>
    pc,                  \* the section the invocation is at
    emitted,             \* the elements the invocation has put on the page, in order
    file_reads,          \* pd.read_csv calls of the invocation
    df,
    df_clean,
    missed_match_cols,
    teams,
    positions,
    selected_teams,
    selected_positions,
    df_filtered,
    total_injuries,
    avg_recovery,
    most_common_injury,
    metrics,             \* the three st.metric values: <<>> or <<[total, avg, injury]>>
    results_list,
    res_counts,
    dataframe            \* the table st.dataframe shows: <<>> or <<table>>

process == <<file, cache, widget>>

script == <<df, df_clean, missed_match_cols, teams, positions, selected_teams,
            selected_positions, df_filtered, total_injuries, avg_recovery,
            most_common_injury, metrics, results_list, res_counts, dataframe>>

vars == <<file, cache, widget, pc, emitted, file_reads, script>>

EmptyTable == [columns |-> <<>>, rows |-> <<>>]

NoCounts == [v \in {} |-> 0]

\* The script's variables before the script has assigned them.
Fresh ==
    /\ df = EmptyTable
    /\ df_clean = EmptyTable
    /\ missed_match_cols = <<>>
    /\ teams = <<>>
    /\ positions = <<>>
    /\ selected_teams = {}
    /\ selected_positions = {}
    /\ df_filtered = EmptyTable
    /\ total_injuries = 0
    /\ avg_recovery = NaT
    /\ most_common_injury = ""
    /\ metrics = <<>>
    /\ results_list = <<>>
    /\ res_counts = NoCounts
    /\ dataframe = <<>>

FreshNext ==
    /\ df' = EmptyTable
    /\ df_clean' = EmptyTable
    /\ missed_match_cols' = <<>>
    /\ teams' = <<>>
    /\ positions' = <<>>
    /\ selected_teams' = {}
    /\ selected_positions' = {}
    /\ df_filtered' = EmptyTable
    /\ total_injuries' = 0
    /\ avg_recovery' = NaT
    /\ most_common_injury' = ""
    /\ metrics' = <<>>
    /\ results_list' = <<>>
    /\ res_counts' = NoCounts
    /\ dataframe' = <<>>

\* ------------------------------------------------------------------------
\* load_data under @st.cache_data
\* ------------------------------------------------------------------------

\* load_data without the os.path.exists check: pd.read_csv raises for an
\* absent file as it does for an unparsable one.
load_data_no_exists_check(c, f) ==
    IF c # <<>>
    THEN [ends |-> "hit", frame |-> c[1], entry |-> c, reads |-> 0,
          elements |-> <<>>]
    ELSE IF f.status \in {"absent", "unparsable"}
    THEN [ends |-> "raise", frame |-> [columns |-> <<>>, rows |-> <<>>],
          entry |-> c, reads |-> 1, elements |-> <<>>]
    ELSE [ends |-> "return", frame |-> read_csv(f.content),
          entry |-> <<read_csv(f.content)>>, reads |-> 1, elements |-> <<>>]

\* load_data without the decorator: the body runs on every call.
load_data_undecorated(c, f) ==
    IF f.status = "absent"
    THEN [ends |-> "stop", frame |-> [columns |-> <<>>, rows |-> <<>>],
          entry |-> c, reads |-> 0, elements |-> <<"error_not_found">>]
    ELSE IF f.status = "unparsable"
    THEN [ends |-> "raise", frame |-> [columns |-> <<>>, rows |-> <<>>],
          entry |-> c, reads |-> 1, elements |-> <<>>]
    ELSE [ends |-> "return", frame |-> read_csv(f.content),
          entry |-> <<read_csv(f.content)>>, reads |-> 1, elements |-> <<>>]

\* One call of load_data() with cache entry c and file f: how the call ends
\* ("hit": the entry is returned and the body does not run; "stop": st.stop()
\* in the body; "raise": an exception of pd.read_csv; "return"), the frame
\* it returns, the entry afterwards, the number of reads of the file and the
\* elements the body puts on the page.
load_data(c, f) ==
    IF c # <<>>
    THEN [ends |-> "hit", frame |-> c[1], entry |-> c, reads |-> 0,
          elements |-> <<>>]
    ELSE IF f.status = "absent"
    THEN [ends |-> "stop", frame |-> EmptyTable, entry |-> c, reads |-> 0,
          elements |-> <<"error_not_found">>]
    ELSE IF f.status = "unparsable"
    THEN [ends |-> "raise", frame |-> EmptyTable, entry |-> c, reads |-> 1,
          elements |-> <<>>]
    ELSE [ends |-> "return", frame |-> read_csv(f.content),
          entry |-> <<read_csv(f.content)>>, reads |-> 1, elements |-> <<>>]

\* The entry and the returned frame being one object (st.cache_resource).
EntryAfterMutation_shared(entry, frame) == <<frame>>

\* The entry of the cache after the script has changed the frame load_data
\* returned: st.cache_data returns a copy of the entry, so the entry stays.
EntryAfterMutation(entry, frame) == entry

\* ------------------------------------------------------------------------
\* The script, section by section
\* ------------------------------------------------------------------------

\* Lines 27-31.
LoadData ==
    /\ pc = "load"
    /\ LET call == load_data(cache, file)
       IN  /\ cache' = call.entry
           /\ file_reads' = call.reads
           /\ df' = call.frame
           /\ emitted' =
                  IF call.ends = "raise"
                  THEN emitted \o call.elements \o <<"error_loading">>
                  ELSE emitted \o call.elements
           /\ pc' = IF call.ends \in {"stop", "raise"} THEN "stopped" ELSE "prepare"
           \* A run that renders no widget drops the widgets' state.
           /\ widget' = IF call.ends \in {"stop", "raise"} THEN <<>> ELSE widget
    /\ UNCHANGED <<file, df_clean, missed_match_cols, teams, positions,
                   selected_teams, selected_positions, df_filtered, total_injuries,
                   avg_recovery, most_common_injury, metrics, results_list,
                   res_counts, dataframe>>

\* Lines 36-49.
Prepare ==
    /\ pc = "prepare"
    /\ df' = Derive(df)
    /\ df_clean' = dropna(df')
    /\ missed_match_cols' = MissedMatchCols(df'.columns)
    /\ cache' = EntryAfterMutation(cache, df')
    /\ pc' = "sidebar"
    /\ UNCHANGED <<file, widget, emitted, file_reads, teams, positions,
                   selected_teams, selected_positions, df_filtered, total_injuries,
                   avg_recovery, most_common_injury, metrics, results_list,
                   res_counts, dataframe>>

\* Lines 52-69.  A multiselect returns the session's value, or its default
\* the first time it is rendered.
Sidebar ==
    /\ pc = "sidebar"
    /\ teams' = TeamOptions(df_clean)
    /\ positions' = PositionOptions(df_clean)
    /\ selected_teams' =
           IF widget = <<>> THEN DefaultTeams(teams') ELSE widget[1].teams
    /\ selected_positions' =
           IF widget = <<>> THEN DefaultPositions(positions') ELSE widget[1].positions
    /\ widget' = <<[teams |-> selected_teams', positions |-> selected_positions']>>
    /\ df_filtered' = ApplyFilters(df_clean, selected_teams', selected_positions')
    /\ pc' = "metrics"
    /\ UNCHANGED <<file, cache, emitted, file_reads, df, df_clean,
                   missed_match_cols, total_injuries, avg_recovery,
                   most_common_injury, metrics, results_list, res_counts,
                   dataframe>>

\* Lines 76-83.
TopMetrics ==
    /\ pc = "metrics"
    /\ total_injuries' = Len(df_filtered.rows)
    /\ avg_recovery' = AvgRecovery(df_filtered)
    /\ IF ModeRaises(df_filtered)
       THEN /\ most_common_injury' = most_common_injury
            /\ metrics' = metrics
            /\ emitted' = Append(emitted, "exception")
            /\ pc' = "raised"
       ELSE /\ most_common_injury' = MostCommonInjury(df_filtered)
            /\ metrics' = <<[total  |-> total_injuries',
                             avg    |-> FormatAvg(avg_recovery'),
                             injury |-> most_common_injury']>>
            /\ emitted' = Append(emitted, "metrics")
            /\ pc' = "charts"
    /\ UNCHANGED <<process, file_reads, df, df_clean, missed_match_cols, teams,
                   positions, selected_teams, selected_positions, df_filtered,
                   results_list, res_counts, dataframe>>

\* Lines 89-125: charts 1 to 4, drawn by the charting library from df_filtered.
Charts ==
    /\ pc = "charts"
    /\ emitted' = Append(emitted, "charts")
    /\ pc' = "chart5"
    /\ UNCHANGED <<process, file_reads, script>>

\* Lines 128-149.
Chart5 ==
    /\ pc = "chart5"
    /\ results_list' = ResultsList(df_filtered, missed_match_cols)
    /\ res_counts' =
           IF Chart5Element(results_list') = "chart5"
           THEN ResCounts(results_list')
           ELSE res_counts
    /\ emitted' = Append(emitted, Chart5Element(results_list'))
    /\ pc' = "table"
    /\ UNCHANGED <<process, file_reads, df, df_clean, missed_match_cols, teams,
                   positions, selected_teams, selected_positions, df_filtered,
                   total_injuries, avg_recovery, most_common_injury, metrics,
                   dataframe>>

\* Lines 152-153.
DataTable ==
    /\ pc = "table"
    /\ dataframe' = <<df_filtered>>
    /\ emitted' = Append(emitted, "dataframe")
    /\ pc' = "done"
    /\ UNCHANGED <<process, file_reads, df, df_clean, missed_match_cols, teams,
                   positions, selected_teams, selected_positions, df_filtered,
                   total_injuries, avg_recovery, most_common_injury, metrics,
                   results_list, res_counts>>

\* ------------------------------------------------------------------------
\* What starts an invocation, and the file system
\* ------------------------------------------------------------------------

Ended == pc \in {"done", "stopped", "raised"}

\* The script is run again with the session's widget values as they are.
Rerun ==
    /\ Ended
    /\ pc' = "load"
    /\ emitted' = <<>>
    /\ file_reads' = 0
    /\ FreshNext
    /\ UNCHANGED process

\* The user changes a multiselect (to any subset of its options), which runs
\* the script again.
ChangeSelection ==
    /\ pc \in {"done", "raised"}
    /\ \E t \in SUBSET Range(teams), p \in SUBSET Range(positions) :
           /\ <<t, p>> # <<selected_teams, selected_positions>>
           /\ widget' = <<[teams |-> t, positions |-> p]>>
    /\ pc' = "load"
    /\ emitted' = <<>>
    /\ file_reads' = 0
    /\ FreshNext
    /\ UNCHANGED <<file, cache>>

\* The file is deleted, damaged or put back by someone outside the program.
FileChanges ==
    /\ \E s \in {"absent", "unparsable", "present"} :
           /\ s # file.status
           /\ file' = [file EXCEPT !.status = s]
    /\ UNCHANGED <<cache, widget, pc, emitted, file_reads, script>>

Next ==
    \/ LoadData
    \/ Prepare
    \/ Sidebar
    \/ TopMetrics
    \/ Charts
    \/ Chart5
    \/ DataTable
    \/ Rerun
    \/ ChangeSelection
    \/ FileChanges

\* ------------------------------------------------------------------------
\* Source files
\* ------------------------------------------------------------------------

RawRow(team, position, injury, date_of_injury, date_of_return, results) ==
    [Team_Name      |-> team,
     Position       |-> position,
     Injury         |-> injury,
     Date_of_Injury |-> date_of_injury,
     Date_of_return |-> date_of_return,
     Results        |-> results]

\* The files with the given header and up to MaxRows rows of the given set.
Contents(columns, rows) ==
    {[columns |-> columns, rows |-> rs] : rs \in SeqsUpTo(rows, MaxRows)}

\* The process starts, the first invocation of the session is about to load.
InitWith(contents) ==
    /\ file \in [status : {"absent", "unparsable", "present"}, content : contents]
    /\ cache = <<>>
    /\ widget = <<>>
    /\ pc = "load"
    /\ emitted = <<>>
    /\ file_reads = 0
    /\ Fresh

Win == <<"W", "i", "n">>
win == <<"w", "i", "n">>
Draw == <<"D", "r", "a", "w">>

Feb24 == <<"Feb", 24, 2024>>
Mar5 == <<"Mar", 5, 2024>>
Feb30 == <<"Feb", 30, 2023>>

\* Files that differ in team and position, and in whether Injury is given.
SelectionRows ==
    {RawRow(t, p, IF p = "GK" THEN "Knee" ELSE "Hamstring", Feb24, Mar5,
            <<win, Win>>) :
        t \in {"Arsenal", "Chelsea", ""}, p \in {"GK", "FW", ""}}
    \cup {RawRow("Arsenal", "GK", "", Feb24, Mar5, <<win, NaT>>)}

\* Files that differ in the two dates.
DateRows ==
    {RawRow("Arsenal", "GK", "Knee", a, b, <<win, Win>>) :
        a \in {Feb24, Mar5, Feb30, NaT}, b \in {Feb24, Mar5, Feb30, NaT}}

\* Files that differ in which of team, position and dates are given.
CompletenessRows ==
    {RawRow(t, p, "Knee", d[1], d[2], <<win, Win>>) :
        t \in {"Arsenal", ""}, p \in {"GK", "N/A"},
        d \in {<<Feb24, Mar5>>, <<Feb24, Feb30>>, <<NaT, Mar5>>}}

\* Files with no, one and two missed-match-result columns.
TallyContents ==
    Contents(<<ColBefore1>>,
             {RawRow(t, "GK", "Knee", Feb24, Mar5, <<win>>) :
                 t \in {"Arsenal", "Chelsea"}})
    \cup
    Contents(<<ColBefore1, ColMissed1>>,
             {RawRow(t, "GK", "Knee", Feb24, Mar5, <<win, c1>>) :
                 t \in {"Arsenal", "Chelsea"}, c1 \in {Win, win, NaT}})
    \cup
    Contents(<<ColMissed1, ColBefore1, ColMissed2>>,
             {RawRow(t, "GK", "Knee", Feb24, Mar5, <<c1, win, c2>>) :
                 t \in {"Arsenal", "Chelsea"}, c1 \in {Win, Draw, NaT},
                 c2 \in {win, NaT}})

Init == InitWith(Contents(<<ColBefore1, ColMissed1>>, SelectionRows))

InitDates == InitWith(Contents(<<ColBefore1, ColMissed1>>, DateRows))

InitCompleteness == InitWith(Contents(<<ColBefore1, ColMissed1>>, CompletenessRows))

InitTally == InitWith(TallyContents)

Spec == Init /\ [][Next]_vars

SpecDates == InitDates /\ [][Next]_vars

SpecCompleteness == InitCompleteness /\ [][Next]_vars

SpecTally == InitTally /\ [][Next]_vars

\* ------------------------------------------------------------------------
\* Properties
\* ------------------------------------------------------------------------

\* The sections after df_clean, after df_filtered and after the KPIs exist.
AfterPrepare == {"sidebar", "metrics", "charts", "chart5", "table", "done", "raised"}

AfterSidebar == {"metrics", "charts", "chart5", "table", "done", "raised"}

AfterMetrics == {"charts", "chart5", "table", "done"}

\* A row passes the selection: each dimension is unrestricted when its
\* selection is empty, and the two dimensions are combined with AND.
Selected(r, sel_teams, sel_positions) ==
    /\ (sel_teams = {} \/ r.Team_Name \in sel_teams)
    /\ (sel_positions = {} \/ r.Position \in sel_positions)

\* The three fields the analysis needs are all there.
AllDefined(r) ==
    r.Recovery_Duration # NaT /\ r.Team_Name # NaN /\ r.Position # NaN

\* C1 - Selection Filter: the filtered table is exactly the cleaned records
\* whose team is selected (or no team is selected) and whose position is
\* selected (or no position is selected); an empty selection restricts
\* nothing.
C1_SelectionFilter ==
    pc \in AfterSidebar =>
        df_filtered.rows =
            SelectSeq(df_clean.rows,
                      LAMBDA r : Selected(r, selected_teams, selected_positions))

\* C1 witness: no team selected, one position selected, and the filter keeps
\* one cleaned record of two.
C1_Witness ==
    /\ pc = "done"
    /\ selected_teams = {}
    /\ selected_positions = {"GK"}
    /\ Len(df_clean.rows) = 2
    /\ Len(df_filtered.rows) = 1

\* C2 - Completeness: every record of df_clean and of df_filtered has
\* Recovery Duration, Team Name and Position defined, and a loaded record
\* that is not in df_clean misses at least one of the three.
C2_Completeness ==
    /\ \A i \in DOMAIN df_clean.rows : AllDefined(df_clean.rows[i])
    /\ \A i \in DOMAIN df_filtered.rows : AllDefined(df_filtered.rows[i])
    /\ pc \in AfterPrepare =>
           /\ \A i \in DOMAIN df.rows :
                  df.rows[i] \notin Range(df_clean.rows) => ~AllDefined(df.rows[i])
           /\ Len(df_clean.rows) =
                  Cardinality({i \in DOMAIN df.rows : AllDefined(df.rows[i])})

\* C2 witness: of two loaded records one is dropped and the other reaches the
\* filtered table.
C2_Witness ==
    /\ pc = "done"
    /\ Len(df.rows) = 2
    /\ Len(df_clean.rows) = 1
    /\ Len(df_filtered.rows) = 1

\* C3 - Aggregator on an empty filtered table: count 0, the mean shown as
\* "not available" and not as NaN, the most common injury "N/A", nothing
\* raised.
C3_EmptyAggregates ==
    (pc \in AfterSidebar \ {"metrics"} /\ df_filtered.rows = <<>>) =>
        /\ pc # "raised"
        /\ total_injuries = 0
        /\ most_common_injury = "N/A"
        /\ metrics # <<>>
        /\ ~metrics[1].avg.nan

\* C4 - Metric Deriver: a record whose two dates parse has Recovery Duration
\* = return day minus injury day; a record with a date that does not parse
\* has none, and stays in the table with the other records.
C4_RecoveryDuration ==
    pc \in AfterPrepare =>
        /\ Len(df.rows) = Len(cache[1].rows)
        /\ \A i \in DOMAIN df.rows :
               LET a == cache[1].rows[i].Date_of_Injury
                   b == cache[1].rows[i].Date_of_return
                   d == df.rows[i].Recovery_Duration
               IN  /\ (IsDateText(a) /\ IsDateText(b)) =>
                          d = <<Ordinal(b[3], MonthIndex(b[1]), b[2])
                                - Ordinal(a[3], MonthIndex(a[1]), a[2])>>
                   /\ ~(IsDateText(a) /\ IsDateText(b)) => d = NaT
                   /\ (a = Feb24 /\ b = Mar5) => d = <<10>>

\* C4 witness: the first record's date does not parse, the second record is
\* ten days long, and the invocation ran to its end with the second.
C4_Witness ==
    /\ pc = "done"
    /\ Len(df.rows) = 2
    /\ df.rows[1].Recovery_Duration = NaT
    /\ df.rows[2].Recovery_Duration = <<10>>
    /\ Len(df_clean.rows) = 1

\* The sum of (return day - injury day) over the rows of a derived table.
SumOfDayDifferences(t) ==
    SumSeq([i \in DOMAIN t.rows |->
                t.rows[i].Date_of_return[1] - t.rows[i].Date_of_Injury[1]])

\* C8 - A record whose return date is before its injury date has the
\* negative difference as its Recovery Duration, stays in df_clean, and its
\* negative value is part of the mean.
C8_NegativeKept ==
    /\ pc \in AfterPrepare =>
           \A i \in DOMAIN df.rows :
               LET r == df.rows[i] IN
               (r.Date_of_Injury # NaT /\ r.Date_of_return # NaT
                   /\ r.Date_of_return[1] < r.Date_of_Injury[1]) =>
                   /\ r.Recovery_Duration # NaT
                   /\ r.Recovery_Duration[1] < 0
                   /\ r.Recovery_Duration[1] =
                          r.Date_of_return[1] - r.Date_of_Injury[1]
                   /\ (r.Team_Name # NaN /\ r.Position # NaN) =>
                          r \in Range(df_clean.rows)
    /\ (pc \in AfterMetrics /\ df_filtered.rows # <<>>) =>
           /\ avg_recovery # NaT
           /\ avg_recovery[1] * Len(df_filtered.rows) =
                  avg_recovery[2] * SumOfDayDifferences(df_filtered)

\* C8 witness: one record of minus ten days and one of zero days, and a mean
\* below zero.
C8_Witness ==
    /\ pc = "done"
    /\ Len(df_filtered.rows) = 2
    /\ df_filtered.rows[1].Recovery_Duration = <<-10>>
    /\ df_filtered.rows[2].Recovery_Duration = <<0>>
    /\ avg_recovery = <<-5, 1>>
    /\ metrics[1].avg = [nan |-> FALSE, tenths |-> -50]

\* Two values differ at most in the case of their letters.
SameIgnoringCase(a, b) ==
    /\ Len(a) = Len(b)
    /\ \A i \in DOMAIN a :
           \/ a[i] = b[i]
           \/ \E k \in DOMAIN UpperCase : {a[i], b[i]} = {UpperCase[k], LowerCase[k]}

\* The non-missing cells of the missed-match-result columns of a table, each
\* as <<row, column>>.
MissedCells(t) ==
    {c \in (DOMAIN t.rows) \X (DOMAIN t.columns) :
        /\ IsMissedMatchCol(t.columns[c[2]])
        /\ t.rows[c[1]].Results[c[2]] # NaT}

RECURSIVE SumOfCounts(_)
SumOfCounts(f) ==
    IF DOMAIN f = {} THEN 0
    ELSE LET v == CHOOSE v \in DOMAIN f : TRUE
         IN  f[v] + SumOfCounts([w \in DOMAIN f \ {v} |-> f[w]])

\* C5 - Match-outcome tally: each bucket is a lower-case token and counts the
\* non-missing missed-match cells of the filtered records equal to it up to
\* case; every such cell is in one bucket; the counts add up to the number of
\* those cells.
C5_Tally ==
    (pc \in {"table", "done"} /\ "chart5" \in Range(emitted)) =>
        LET cells  == MissedCells(df_filtered)
            val(c) == df_filtered.rows[c[1]].Results[c[2]]
        IN  /\ \A v \in DOMAIN res_counts :
                   /\ res_counts[v] =
                          Cardinality({c \in cells : SameIgnoringCase(val(c), v)})
                   /\ res_counts[v] > 0
                   /\ \A i \in DOMAIN v : v[i] \notin Range(UpperCase)
            /\ \A c \in cells :
                   \E v \in DOMAIN res_counts : SameIgnoringCase(val(c), v)
            /\ \A v, w \in DOMAIN res_counts : SameIgnoringCase(v, w) => v = w
            /\ SumOfCounts(res_counts) = Cardinality(cells)

\* C5 witness: two missed-match columns, "Win" in one cell and "win" in
\* another, both counted in the bucket "win".
C5_Witness ==
    /\ pc = "done"
    /\ Len(missed_match_cols) = 2
    /\ Win \in Range(results_list)
    /\ win \in Range(results_list)
    /\ win \in DOMAIN res_counts
    /\ res_counts[win] = 2

\* C6 - The match-outcome output is "no data" exactly when the filtered
\* records have no non-missing missed-match cell, and a tally otherwise; in
\* both cases the invocation goes on to the raw table, which shows the
\* filtered table.
C6_NoData ==
    /\ [](pc \in {"table", "done"} =>
              /\ ("info" \in Range(emitted)) <=> (MissedCells(df_filtered) = {})
              /\ ("chart5" \in Range(emitted)) <=> (MissedCells(df_filtered) # {}))
    /\ [](pc = "done" =>
              /\ dataframe = <<df_filtered>>
              /\ emitted[Len(emitted)] = "dataframe")
    /\ [][(pc = "chart5" /\ pc' # pc) => (pc' = "table")]_vars
    /\ [][(pc = "table" /\ pc' # pc) => (pc' = "done")]_vars

\* C6 witness: records are selected and a missed-match column exists, but
\* all its cells are missing: "no data" is shown, then the raw table.
C6_Witness ==
    /\ pc = "done"
    /\ df_filtered.rows # <<>>
    /\ missed_match_cols # <<>>
    /\ emitted = <<"metrics", "charts", "info", "dataframe">>
    /\ dataframe = <<df_filtered>>

\* C7 - A failed load is terminal: with nothing cached and the file absent
\* or unparsable, the invocation shows one error (a different one for each
\* of the two), reads the file at most once, runs none of the later sections
\* and stops; only a new invocation follows.
C7_LoadFailureTerminal ==
    /\ [][(pc = "load" /\ pc' # pc /\ cache = <<>> /\ file.status # "present") =>
              /\ pc' = "stopped"
              /\ file_reads' <= 1
              /\ emitted' = IF file.status = "absent"
                            THEN <<"error_not_found">>
                            ELSE <<"error_loading">>]_vars
    /\ [](pc = "stopped" => (Fresh /\ Len(emitted) = 1 /\ file_reads <= 1))
    /\ [][(pc = "stopped" /\ pc' # pc) => (pc' = "load" /\ emitted' = <<>>)]_vars

\* C7 witness: the file could not be parsed; the invocation has stopped with
\* the loading error after one read.
C7_Witness ==
    /\ pc = "stopped"
    /\ file.status = "unparsable"
    /\ emitted = <<"error_loading">>
    /\ file_reads = 1

\* C9 - Loader memoization: once the cache holds the table it is never
\* changed or dropped; a load with the table cached does not read the file
\* and returns the cached table; a failed load leaves the cache empty.
C9_Memoized ==
    /\ [][cache # <<>> => (cache' = cache)]_vars
    /\ [][(pc = "load" /\ pc' # pc /\ cache # <<>>) =>
              (pc' = "prepare" /\ file_reads' = 0 /\ df' = cache[1])]_vars
    /\ [][(pc = "load" /\ pc' = "stopped") => (cache' = <<>>)]_vars
    /\ [](Len(cache) <= 1 /\ file_reads <= 1)

\* C9 witness: an invocation that ran to its end from the cache, without a
\* read, while the file is gone.
C9_Witness ==
    /\ pc = "done"
    /\ cache # <<>>
    /\ file_reads = 0
    /\ file.status = "absent"
    /\ Len(df_filtered.rows) = 2

\* C10 - Statelessness: what an invocation shows is determined by the loaded
\* table and the current selection alone; the sections after the cleaning
\* leave df_clean as it is, and the derivation leaves the cached table as it
\* is.
C10_Stateless ==
    /\ [](pc = "done" =>
              LET rows == SelectSeq(Derive(cache[1]).rows,
                                    LAMBDA r : /\ AllDefined(r)
                                               /\ Selected(r, selected_teams,
                                                           selected_positions))
              IN  /\ dataframe = <<[columns |-> cache[1].columns, rows |-> rows]>>
                  /\ metrics[1].total = Len(rows))
    /\ [][(pc \in {"sidebar", "metrics", "charts", "chart5", "table"}) =>
              (df_clean' = df_clean)]_vars
    /\ [][pc = "prepare" => (cache' = cache)]_vars

\* C10 witness: an invocation that ran to its end with a selection other
\* than the default one, so an earlier invocation had another selection.
C10_Witness ==
    /\ pc = "done"
    /\ widget # <<>>
    /\ selected_teams # DefaultTeams(teams)
    /\ selected_positions # DefaultPositions(positions)
    /\ Len(df_filtered.rows) = 1
    /\ Len(df_clean.rows) = 2

====
